---- MODULE Spec2Model ----
(***************************************************************************)
(* Model of predict.py: the camera-route planner (make_drone_route and its *)
(* helpers) and the capture pipeline of Predictor (setup, predict,         *)
(* _open_and_capture, center_crop).                                        *)
(*                                                                         *)
(* Numbers.  The program computes with Python floats.  The model uses      *)
(* fixed-point integers:                                                   *)
(*   - distances and altitudes given by the caller: hundredths of a metre  *)
(*     (6520 is 65.2 m), so that round(v, 1) and the ".1f" format have     *)
(*     digits to drop;                                                     *)
(*   - distances of a pose (after round(v, 1)): tenths of a metre;         *)
(*   - headings: whole degrees for start_heading_deg; the heading of a     *)
(*     pose is the numerator of a fraction whose denominator is the        *)
(*     route's orbit_steps (heading_step = 360 / orbit_steps is not a      *)
(*     whole number in general).                                           *)
(* Arithmetic that is continuous is done exactly.  round(v, 1) is not      *)
(* continuous: when the exact decimal value of v is a tie (x.x5) the digit *)
(* Python produces is decided by the sign of the float's error, which is   *)
(* modelled (ReprErr, FRound, and the fe argument of make_drone_route).    *)
(***************************************************************************)
EXTENDS Integers, Sequences, FiniteSets, TLC

\* ------------------------------------------------------------------------
\* Bounds and input sets
\* ------------------------------------------------------------------------
\* largest value of the count input (the route then has MaxCount poses)
MaxCount == 6

\* count: 0, negative and values below 3 included
CountSet == (-1)..MaxCount

\* max_distance, hundredths of a metre: below the clamp floor, small, the
\* repository default 195.0, and above the clamp ceiling
MaxDistanceSet == {50, 5000, 15005, 19500, 25000}

\* near_distance_min, hundredths of a metre (default 90.0)
NearDistanceMinSet == {50, 1255, 4998, 9000, 20000}

\* start_heading_deg, whole degrees: negative, zero, and beyond one turn
StartHeadingSet == {-90, 0, 45, 350, 725}

\* default_alt, hundredths of a metre (default 30.0)
DefaultAltSet == {1005}

\* elevations the Open-Elevation service may report, hundredths of a metre
ElevationSet == {0, 152500}

\* ------------------------------------------------------------------------
\* Program constants of make_drone_route
\* ------------------------------------------------------------------------
MinPoses == 3
ClampLo == 100
ClampHi == 19500
PushIn == 7000
tilt_approach == 55
tilt_orbit == 67
tilt_hero == 72
fov_base == 35
fov_breath == 3
roll == 0
FullTurn == 360

\* ------------------------------------------------------------------------
\* Arithmetic helpers
\* ------------------------------------------------------------------------
Max(a, b) == IF a >= b THEN a ELSE b

Min(a, b) == IF a <= b THEN a ELSE b

clamp(v, lo, hi) == Max(lo, Min(hi, v))

RECURSIVE Pow2Mod(_, _)
\* 2^k modulo m, thirty doublings at a time (2^30 is the largest power of
\* two the 32-bit integers hold)
Pow2Mod(k, m) ==
    IF k <= 30 THEN (2 ^ k) % m
    ELSE (((2 ^ 30) % m) * Pow2Mod(k - 30, m)) % m

RECURSIVE Exp2(_)
\* binary exponent e of c/100 (c > 0): 2^e <= c/100 < 2^(e+1)
Exp2(c) == IF c >= 200 THEN 1 + Exp2(c \div 2)
           ELSE IF c < 100 THEN Exp2(2 * c) - 1
           ELSE 0

\* Sign of (the binary64 float nearest to c/100) - c/100, for c >= 0.
\* The float's 53-bit significand is c * 2^(50-e) / 25 rounded to nearest;
\* the remainder modulo 25 tells the direction of that rounding.
ReprErr(c) ==
    IF c % 25 = 0 THEN 0
    ELSE LET r == ((c % 25) * Pow2Mod(50 - Exp2(c), 25)) % 25
         IN  IF r <= 12 THEN -1 ELSE 1

\* Python round(v, 0) of the float whose exact value is P/Q (Q > 0) and
\* whose error has sign s: nearest integer; on an exact tie the float's side
\* of the tie decides, and a float that is exactly the tie rounds half-even.
FRound(P, Q, s) ==
    LET lo == P \div Q
        rem == P % Q
    IN  IF 2 * rem < Q THEN lo
        ELSE IF 2 * rem > Q THEN lo + 1
        ELSE IF s < 0 THEN lo
        ELSE IF s > 0 THEN lo + 1
        ELSE IF lo % 2 = 0 THEN lo ELSE lo + 1

\* round(v, 1) and format(v, ".1f") of a caller-supplied value of c
\* hundredths: the result in tenths
Round1(c) == FRound(c, 10, ReprErr(c))

\* ------------------------------------------------------------------------
\* Route design
\* ------------------------------------------------------------------------
\* ease_in_out_quad(i/m) as the numerator of a fraction over m*m
ease_in_out_quad(i, m) ==
    IF 2 * i < m THEN 2 * i * i
    ELSE m * m - 2 * (m - i) * (m - i)

\* a planner that counts the orbit poses wrongly: N = max(3, count + 1)
RouteLenOffByOne(count) == Max(MinPoses, count + 1)

\* N = max(3, count)
RouteLen(count) == Max(MinPoses, count)

\* near_d = max(near_distance_min, max_d - 70.0), hundredths
NearD(max_d, near_distance_min) == Max(near_distance_min, max_d - PushIn)

\* sign of the float error of near_d: the error of the operand max() picks
\* (max_d - 70.0 is exact in binary64 for max_d >= 70 and carries the error
\* of max_d)
NearErr(max_d, near_distance_min) ==
    IF near_distance_min > max_d - PushIn THEN ReprErr(near_distance_min)
    ELSE IF near_distance_min < max_d - PushIn THEN ReprErr(max_d)
    ELSE Max(ReprErr(near_distance_min), ReprErr(max_d))

\* max_d - (max_d - near_d) * 1.0 returns the float near_d itself when both
\* subtractions are exact: near_d was computed as max_d - 70.0, or near_d
\* lies within a factor two of max_d
ExactCancel(max_d, near_distance_min) ==
    LET near_d == NearD(max_d, near_distance_min)
    IN  \/ near_distance_min < max_d - PushIn
        \/ (2 * near_d >= max_d /\ near_d <= 2 * max_d)

\* dist_for_orbit_idx(i, total), tenths.  fe is the sign of the float error
\* of max_d - (max_d - near_d) * eased where it is not determined by the
\* inputs' own errors.
dist_for_orbit_idx(i, total, max_d, near_distance_min, fe) ==
    LET m == Max(1, total - 1)
        near_d == NearD(max_d, near_distance_min)
        eased == ease_in_out_quad(i, m)
        P == max_d * m * m - (max_d - near_d) * eased
        s == IF eased = 0 THEN ReprErr(max_d)
             ELSE IF eased = m * m /\ ExactCancel(max_d, near_distance_min)
                  THEN NearErr(max_d, near_distance_min)
             ELSE fe
    IN  FRound(P, 10 * m * m, s)

\* build_earth_url_with_search: the URL as the record of its formatted
\* fields (a, d, r in tenths; y in hundredths; h, t in thousandths)
build_earth_url_with_search(loc, a, d, y, hNum, hDen, t, r) ==
    [loc |-> loc,
     a |-> Round1(a),
     d |-> d,
     y |-> 100 * y,
     h |-> FRound(1000 * hNum, hDen, 0),
     t |-> 1000 * t,
     r |-> 10 * r]

\* a planner that forgets the wraparound: start_heading_deg + heading_step * k
PoseHeadingNoWrap(start_heading_deg, clockwise, orbit_steps, k) ==
    LET step_sign == IF clockwise THEN 1 ELSE -1
    IN  start_heading_deg * orbit_steps + step_sign * FullTurn * k

\* (start_heading_deg + heading_step * k) % 360.0 with
\* heading_step = step_sign * (360.0 / orbit_steps): the numerator of the
\* heading over the denominator orbit_steps, in [0, 360 * orbit_steps)
PoseHeading(start_heading_deg, clockwise, orbit_steps, k) ==
    LET step_sign == IF clockwise THEN 1 ELSE -1
    IN  (start_heading_deg * orbit_steps + step_sign * FullTurn * k)
            % (FullTurn * orbit_steps)

\* the signs of the float errors of the orbit distances, one per orbit pose
\* (the first orbit pose has eased = 0 and needs none)
FloatErrs(count) == [1..(RouteLen(count) - 3) -> {-1, 1}]

\* make_drone_route after the elevation lookup (a: the arguments of predict,
\* loc: the geocoded place, a_target: the target altitude): the ordered list
\* of poses
make_drone_route(a, loc, a_target, fe) ==
    LET N == RouteLen(a.count)
        max_d == clamp(a.max_distance, ClampLo, ClampHi)
        near_distance_min == a.near_distance_min
        start_heading_deg == a.start_heading_deg
        near_d == NearD(max_d, near_distance_min)
        orbit_steps == N - 2
        heading(k) == PoseHeading(start_heading_deg, a.clockwise, orbit_steps, k)
        establishing ==
            [step |-> 1, label |-> "Establishing",
             d |-> Round1(max_d), y |-> fov_base,
             h |-> (start_heading_deg % FullTurn) * orbit_steps,
             t |-> tilt_approach, r |-> roll]
        orbit(i) ==
            [step |-> 2 + i, label |-> "Orbit",
             d |-> dist_for_orbit_idx(i, orbit_steps, max_d,
                                      near_distance_min,
                                      IF i = 0 THEN 0 ELSE fe[i]),
             y |-> IF i % 2 = 1
                   THEN fov_base + ((i % 2) * 2 - 1) * fov_breath
                   ELSE fov_base,
             h |-> heading(i + 1),
             t |-> tilt_orbit, r |-> roll]
        hero ==
            [step |-> N, label |-> "Hero",
             d |-> FRound(near_d, 10, NearErr(max_d, near_distance_min)),
             y |-> fov_base,
             h |-> heading(orbit_steps),
             t |-> tilt_hero, r |-> roll]
        rows == <<establishing>>
                  \o [k \in 1..orbit_steps |-> orbit(k - 1)]
                  \o <<hero>>
    IN  [k \in 1..N |->
            [step |-> rows[k].step, label |-> rows[k].label,
             d |-> rows[k].d, y |-> rows[k].y, h |-> rows[k].h,
             t |-> rows[k].t, r |-> rows[k].r,
             url |-> build_earth_url_with_search(
                         loc, a_target, rows[k].d, rows[k].y, rows[k].h,
                         orbit_steps, rows[k].t, rows[k].r)]]

\* ------------------------------------------------------------------------
\* External services
\* ------------------------------------------------------------------------
\* what a request to Nominatim can come back with: the request fails, an
\* HTTP error status, or a JSON list of at most one result (limit = 1)
NominatimReplies ==
    { [status |-> "unreachable", results |-> <<>>],
      [status |-> "http_error", results |-> <<>>],
      [status |-> "ok", results |-> <<>>],
      [status |-> "ok", results |-> <<"latlon">>] }

\* a geocoder without the "if not js" check, answering a default place for
\* an empty result list
geocode_nominatim_unchecked(reply) ==
    IF reply.status = "unreachable"
    THEN [raised |-> "ConnectionError", value |-> <<>>]
    ELSE IF reply.status # "ok"
    THEN [raised |-> "HTTPError", value |-> <<>>]
    ELSE IF reply.results = <<>>
    THEN [raised |-> "", value |-> <<"latlon">>]
    ELSE [raised |-> "", value |-> <<reply.results[1]>>]

\* geocode_nominatim on a reply: the exception raised ("" when none) and the
\* (lat, lon) returned
geocode_nominatim(reply) ==
    IF reply.status = "unreachable"
    THEN [raised |-> "ConnectionError", value |-> <<>>]
    ELSE IF reply.status # "ok"
    THEN [raised |-> "HTTPError", value |-> <<>>]
    ELSE IF reply.results = <<>>
    THEN [raised |-> "RuntimeError", value |-> <<>>]
    ELSE [raised |-> "", value |-> <<reply.results[1]>>]

\* what a request to Open-Elevation can come back with: the request fails,
\* a non-OK status, an empty result list, a result without an elevation, or
\* a result with one
ElevationReplies ==
    { [status |-> "unreachable", results |-> <<>>],
      [status |-> "not_ok", results |-> <<>>],
      [status |-> "ok", results |-> <<>>],
      [status |-> "ok", results |-> << <<>> >>] }
    \cup { [status |-> "ok", results |-> << <<e>> >>] : e \in ElevationSet }

\* get_elevation_open_elevation on a reply: the exception raised ("" when
\* none) and the Optional[float] returned (<<>> is None)
get_elevation_open_elevation(reply) ==
    IF reply.status = "unreachable"
    THEN [raised |-> "ConnectionError", value |-> <<>>]
    ELSE IF reply.status # "ok"
    THEN [raised |-> "", value |-> <<>>]
    ELSE IF reply.results = <<>>
    THEN [raised |-> "", value |-> <<>>]
    ELSE IF reply.results[1] = <<>>
    THEN [raised |-> "TypeError", value |-> <<>>]
    ELSE [raised |-> "", value |-> reply.results[1]]

\* the reply before any lookup was made
NoReply == [status |-> "none", results |-> <<>>]

\* ------------------------------------------------------------------------
\* State
\* ------------------------------------------------------------------------
VARIABLES
    args,          \* the arguments of predict
    pc,            \* the statement the Predictor is at
    error,         \* the failure that ended the run, "none" while it runs
    session,       \* TRUE once setup has started the browser
    geo_reply,     \* the reply of the geocoding request, NoReply if none made
    location,      \* <<>> until geocoded, then <<(lat, lon)>>
    elev_reply,    \* the reply of the elevation lookup, NoReply if none made
    elev_calls,    \* number of elevation lookups made
    route,         \* the route built by make_drone_route, <<>> before
    index,         \* the loop variable i of predict (1-based), 0 before
    page,          \* <<>> or <<the URL the browser has loaded>>
    waits,         \* outcomes of the best-effort steps since the last navigation
    files,         \* the image files on disk: name -> content
    urls_txt,      \* <<>> or <<the lines of urls.txt>>
    output_paths,  \* the list predict returns
    events         \* navigations and screenshots, in the order they happen

vars == <<args, pc, error, session, geo_reply, location, elev_reply,
          elev_calls, route, index, page, waits, files, urls_txt,
          output_paths, events>>

\* file names: view_{i:02d}_full.png and view_{i:02d}.png
FullName(i) == <<"view_full", i>>

ViewName(i) == <<"view", i>>

NoFiles == [n \in {} |-> <<>>]

\* the arguments of predict drawn for the whole pipeline
PipelineArgs ==
    [count : {0, 4},
     max_distance : {19500},
     near_distance_min : {9000},
     start_heading_deg : {0},
     clockwise : {TRUE},
     use_elevation : BOOLEAN,
     default_alt : DefaultAltSet,
     wait_seconds : {0, 6},
     debug_urls : BOOLEAN]

\* the arguments drawn for the route planner alone
RouteArgs ==
    [count : CountSet,
     max_distance : MaxDistanceSet,
     near_distance_min : NearDistanceMinSet,
     start_heading_deg : StartHeadingSet,
     clockwise : BOOLEAN,
     use_elevation : {FALSE},
     default_alt : DefaultAltSet,
     wait_seconds : {6},
     debug_urls : {TRUE}]

\* the Predictor object before setup() has run
Init ==
    /\ args \in PipelineArgs
    /\ pc = "setup"
    /\ error = "none"
    /\ session = FALSE
    /\ geo_reply = NoReply
    /\ location = <<>>
    /\ elev_reply = NoReply
    /\ elev_calls = 0
    /\ route = <<>>
    /\ index = 0
    /\ page = <<>>
    /\ waits = <<>>
    /\ files = NoFiles
    /\ urls_txt = <<>>
    /\ output_paths = <<>>
    /\ events = <<>>

\* the run ends with an exception out of setup or predict
Fail(cause) ==
    /\ pc' = "failed"
    /\ error' = cause

\* ------------------------------------------------------------------------
\* Predictor.setup
\* ------------------------------------------------------------------------
\* webdriver.Chrome(options) starts the browser or raises
Setup ==
    /\ pc = "setup"
    /\ \E started \in BOOLEAN :
         IF started
         THEN /\ session' = TRUE
              /\ pc' = "geocode"
              /\ UNCHANGED error
         ELSE /\ Fail("session")
              /\ UNCHANGED session
    /\ UNCHANGED <<args, geo_reply, location, elev_reply, elev_calls, route,
                   index, page, waits, files, urls_txt, output_paths, events>>

\* ------------------------------------------------------------------------
\* Predictor.predict
\* ------------------------------------------------------------------------
\* 1) Geocode: lat, lon = geocode_nominatim(address, contact_email)
Geocode ==
    /\ pc = "geocode"
    /\ \E reply \in NominatimReplies :
         LET g == geocode_nominatim(reply)
         IN  /\ geo_reply' = reply
             /\ IF g.raised # ""
                THEN /\ Fail(IF g.raised = "RuntimeError"
                             THEN "geocode_no_result" ELSE "geocode_request")
                     /\ UNCHANGED location
                ELSE /\ location' = g.value
                     /\ pc' = "route"
                     /\ UNCHANGED error
    /\ UNCHANGED <<args, session, elev_reply, elev_calls, route, index,
                   page, waits, files, urls_txt, output_paths, events>>

\* the replies the elevation lookup of this run can get: none is requested
\* unless use_elevation
LookupReplies == IF args.use_elevation THEN ElevationReplies ELSE {NoReply}

\* 2) route = make_drone_route(...): the elevation lookup (when
\* use_elevation), then the route and its URLs
MakeRoute ==
    /\ pc = "route"
    /\ \E reply \in LookupReplies, fe \in FloatErrs(args.count) :
         LET elev == IF args.use_elevation
                     THEN get_elevation_open_elevation(reply)
                     ELSE [raised |-> "", value |-> <<>>]
             a_target == IF elev.value # <<>> THEN elev.value[1]
                         ELSE args.default_alt
         IN  /\ elev_reply' = reply
             /\ elev_calls' = IF args.use_elevation
                              THEN elev_calls + 1 ELSE elev_calls
             /\ IF elev.raised # ""
                THEN /\ Fail("elevation")
                     /\ UNCHANGED route
                ELSE /\ route' = make_drone_route(args, location[1],
                                                  a_target, fe)
                     /\ pc' = "debug_urls"
                     /\ UNCHANGED error
    /\ UNCHANGED <<args, session, geo_reply, location, index, page, waits,
                   files, urls_txt, output_paths, events>>

\* the lines written to urls.txt
UrlLines(r) == [k \in 1..Len(r) |-> <<r[k].step, r[k].label, r[k].url>>]

\* Debug: print the URLs and write urls.txt (a failure to write is caught);
\* then the loop over the route starts at i = 1
DebugUrls ==
    /\ pc = "debug_urls"
    /\ IF args.debug_urls
       THEN \E written \in BOOLEAN :
              urls_txt' = IF written THEN <<UrlLines(route)>> ELSE urls_txt
       ELSE UNCHANGED urls_txt
    /\ index' = 1
    /\ pc' = "navigate"
    /\ UNCHANGED <<args, error, session, geo_reply, location, elev_reply,
                   elev_calls, route, page, waits, files, output_paths,
                   events>>

\* ------------------------------------------------------------------------
\* Predictor._open_and_capture
\* ------------------------------------------------------------------------
\* browser.set_window_size(w, h); browser.get(url): loads the page or raises
Navigate ==
    /\ pc = "navigate"
    /\ \E loaded \in BOOLEAN :
         IF loaded
         THEN /\ page' = <<route[index].url>>
              /\ waits' = <<>>
              /\ events' = Append(events, <<"nav", index>>)
              /\ pc' = "dismiss"
              /\ UNCHANGED error
         ELSE /\ Fail("navigate")
              /\ UNCHANGED <<page, waits, events>>
    /\ UNCHANGED <<args, session, geo_reply, location, elev_reply, elev_calls,
                   route, index, files, urls_txt, output_paths>>

\* what _open_and_capture and the loop of predict leave alone between the
\* navigation and the screenshot
CaptureFrame ==
    UNCHANGED <<args, error, session, geo_reply, location, elev_reply,
                elev_calls, route, index, page, files, urls_txt,
                output_paths, events>>

\* the statement after the canvas wait and after the extra wait
AfterSettle == IF args.debug_urls THEN "diagnostics" ELSE "screenshot"

\* Try dismissing overlays: find_element(body).send_keys(ESCAPE) inside
\* try / except Exception: pass
DismissOverlay ==
    /\ pc = "dismiss"
    /\ \E raised \in BOOLEAN :
         waits' = Append(waits, IF raised THEN "overlay_raised"
                                ELSE "overlay_dismissed")
    /\ pc' = "wait_canvas"
    /\ CaptureFrame

\* a canvas wait outside any try: the TimeoutException ends the run
WaitCanvasUncaught ==
    /\ pc = "wait_canvas"
    /\ \E timed_out \in BOOLEAN :
         IF timed_out
         THEN /\ Fail("canvas_timeout")
              /\ UNCHANGED waits
         ELSE /\ waits' = Append(waits, "canvas_found")
              /\ pc' = IF args.wait_seconds > 0 THEN "settle" ELSE AfterSettle
              /\ UNCHANGED error
    /\ UNCHANGED <<args, session, geo_reply, location, elev_reply, elev_calls,
                   route, index, page, files, urls_txt, output_paths, events>>

\* self.wait.until(presence_of_element_located(canvas)) inside
\* try / except TimeoutException: the canvas is found or the wait times out
WaitCanvas ==
    /\ pc = "wait_canvas"
    /\ \E timed_out \in BOOLEAN :
         waits' = Append(waits, IF timed_out THEN "canvas_timeout"
                                ELSE "canvas_found")
    /\ pc' = IF args.wait_seconds > 0 THEN "settle" ELSE AfterSettle
    /\ CaptureFrame

\* if wait_seconds > 0: time.sleep(wait_seconds)
Settle ==
    /\ pc = "settle"
    /\ pc' = AfterSettle
    /\ UNCHANGED waits
    /\ CaptureFrame

\* Post-load diagnostics (debug only): reads of current_url, title and the
\* canvases inside try / except Exception
Diagnostics ==
    /\ pc = "diagnostics"
    /\ \E raised \in BOOLEAN :
         waits' = Append(waits, IF raised THEN "debug_read_failed"
                                ELSE "debug_read")
    /\ pc' = "screenshot"
    /\ CaptureFrame

\* ok = self.browser.save_screenshot(full_path): writes the file and returns
\* True, returns False on an IOError without writing, or raises
Screenshot ==
    /\ pc = "screenshot"
    /\ \E outcome \in {"saved", "io_error", "raised"} :
         IF outcome = "saved"
         THEN /\ files' = [n \in DOMAIN files \cup {FullName(index)} |->
                             IF n = FullName(index)
                             THEN [scene |-> page[1], cropped |-> FALSE]
                             ELSE files[n]]
              /\ events' = Append(events, <<"shot", index>>)
              /\ pc' = "crop"
              /\ UNCHANGED error
         ELSE IF outcome = "io_error"
         THEN /\ pc' = "crop"
              /\ UNCHANGED <<files, events, error>>
         ELSE /\ Fail("screenshot")
              /\ UNCHANGED <<files, events>>
    /\ UNCHANGED <<args, session, geo_reply, location, elev_reply, elev_calls,
                   route, index, page, waits, urls_txt, output_paths>>

\* ------------------------------------------------------------------------
\* center_crop and the end of the loop body of predict
\* ------------------------------------------------------------------------
\* center_crop(image_path, output_path, crop_margin) on the content of the
\* file: the cropped image of the same scene
center_crop(image) == [scene |-> image.scene, cropped |-> TRUE]

\* 4) center_crop(full_img, cropped_img); output_paths.append(cropped_img);
\* Image.open raises when the screenshot was not written, and the crop or
\* the save may raise; after the last pose predict returns output_paths
Crop ==
    /\ pc = "crop"
    /\ \E cropped \in BOOLEAN :
         IF cropped /\ FullName(index) \in DOMAIN files
         THEN /\ files' = [n \in DOMAIN files \cup {ViewName(index)} |->
                             IF n = ViewName(index)
                             THEN center_crop(files[FullName(index)])
                             ELSE files[n]]
              /\ output_paths' = Append(output_paths, ViewName(index))
              /\ IF index < Len(route)
                 THEN /\ index' = index + 1
                      /\ pc' = "navigate"
                 ELSE /\ index' = index
                      /\ pc' = "done"
              /\ UNCHANGED error
         ELSE /\ Fail("crop")
              /\ UNCHANGED <<files, output_paths, index>>
    /\ UNCHANGED <<args, session, geo_reply, location, elev_reply, elev_calls,
                   route, page, waits, urls_txt, events>>

\* ------------------------------------------------------------------------
\* Specifications
\* ------------------------------------------------------------------------
Next ==
    \/ Setup
    \/ Geocode
    \/ MakeRoute
    \/ DebugUrls
    \/ Navigate
    \/ DismissOverlay
    \/ WaitCanvas
    \/ Settle
    \/ Diagnostics
    \/ Screenshot
    \/ Crop

\* one call of setup and one call of predict
Spec == Init /\ [][Next]_vars

\* predict is sequential code: whatever statement it is at, it executes it
\* (every wait of _open_and_capture is bounded by a timeout or a sleep)
FairSpec == Spec /\ WF_vars(Next)

\* make_drone_route applied to every combination of planner inputs, from
\* the state predict is in when it calls it
RouteInit ==
    /\ args \in RouteArgs
    /\ pc = "route"
    /\ error = "none"
    /\ session = TRUE
    /\ geo_reply = [status |-> "ok", results |-> <<"latlon">>]
    /\ location = <<"latlon">>
    /\ elev_reply = NoReply
    /\ elev_calls = 0
    /\ route = <<>>
    /\ index = 0
    /\ page = <<>>
    /\ waits = <<>>
    /\ files = NoFiles
    /\ urls_txt = <<>>
    /\ output_paths = <<>>
    /\ events = <<>>

RouteNext == MakeRoute

RouteSpec == RouteInit /\ [][RouteNext]_vars

\* ------------------------------------------------------------------------
\* Properties
\* ------------------------------------------------------------------------
\* the run has ended: predict returned or an exception left setup / predict
Terminated == pc \in {"done", "failed"}

\* navigation and screenshot of poses 1..n, one pose at a time
RECURSIVE CaptureOrder(_)
CaptureOrder(n) ==
    IF n = 0 THEN <<>>
    ELSE CaptureOrder(n - 1) \o << <<"nav", n>>, <<"shot", n>> >>

\* the returned list: view_1 .. view_n, each the crop of the screenshot of
\* the scene of the pose with step = k
ReturnsViews(n) ==
    /\ output_paths = [k \in 1..n |-> ViewName(k)]
    /\ \A k \in 1..n :
         /\ route[k].step = k
         /\ ViewName(k) \in DOMAIN files
         /\ files[ViewName(k)] = [scene |-> route[k].url, cropped |-> TRUE]

\* C1: in every run of predict in which geocoding succeeds, the poses are
\* captured one at a time in route order (screenshot of pose i before the
\* navigation to pose i+1), every pose is navigated to and screenshotted
\* exactly once, and the run returns exactly N cropped images, the k-th
\* being the crop of the screenshot of pose k.
C1_RouteCapturedInOrder ==
    (location # <<>> /\ Terminated) =>
        /\ pc = "done"
        /\ events = CaptureOrder(RouteLen(args.count))
        /\ ReturnsViews(RouteLen(args.count))

\* C2: whatever the overlay dismissal, the canvas wait and the diagnostic
\* reads do (succeed, raise, time out), a pose that was navigated to
\* reaches its screenshot step.
C2_ReachesScreenshot ==
    \A i \in 1..MaxCount :
        (pc = "dismiss" /\ index = i) ~> (pc = "screenshot" /\ index = i)

\* a pose at its screenshot step after its overlay dismissal raised and its
\* canvas wait timed out
C2_Witness ==
    /\ pc = "screenshot"
    /\ index = 2
    /\ waits[1] = "overlay_raised"
    /\ waits[2] = "canvas_timeout"

\* the elevation lookup did not produce an elevation
LookupFailed(reply) ==
    \/ reply.status \in {"unreachable", "not_ok"}
    \/ (reply.status = "ok" /\ reply.results = <<>>)
    \/ (reply.status = "ok" /\ reply.results # <<>> /\ reply.results[1] = <<>>)

\* C3: when use_elevation is set and the elevation lookup fails in any way
\* (request failure, non-OK response, empty result list, result without an
\* elevation), make_drone_route does not fail and builds the route with
\* default_alt as the altitude of every pose.
C3_ElevationFallback ==
    (args.use_elevation /\ LookupFailed(elev_reply)) =>
        /\ error # "elevation"
        /\ route # <<>>
        /\ \A k \in DOMAIN route : route[k].url.a = Round1(args.default_alt)

\* C4: once the location is resolved, the session started and the loop over
\* the poses entered, no failure of the per-pose work ends the run.
C4_NoPerPoseAbort ==
    (session /\ location # <<>> /\ index >= 1) => pc # "failed"

\* C5: when the geocoder returns no result, predict ends with an error and
\* nothing else has happened: no elevation lookup, no route, no navigation,
\* no screenshot or cropped image, no returned list.
C5_NoResultAborts ==
    (geo_reply.status = "ok" /\ geo_reply.results = <<>>) =>
        /\ pc = "failed"
        /\ location = <<>>
        /\ elev_calls = 0
        /\ route = <<>>
        /\ page = <<>>
        /\ events = <<>>
        /\ files = NoFiles
        /\ output_paths = <<>>

\* the run that ended on the geocoder's empty reply
C5_Witness ==
    /\ geo_reply.status = "ok"
    /\ geo_reply.results = <<>>
    /\ pc = "failed"
    /\ error = "geocode_no_result"

\* C6: for every count the route has max(3, count) poses: one establishing
\* pose, the orbit poses, one hero pose, in that order, and the pose at
\* position k has step = k.
C6_RouteShape ==
    route # <<>> =>
        LET n == IF args.count > 3 THEN args.count ELSE 3
        IN  /\ Len(route) = n
            /\ route[1].label = "Establishing"
            /\ \A k \in 2..(n - 1) : route[k].label = "Orbit"
            /\ route[n].label = "Hero"
            /\ \A k \in 1..n : route[k].step = k

\* a route built for a count below the minimum
C6_Witness ==
    /\ route # <<>>
    /\ args.count = 0
    /\ Len(route) = 3
    /\ route[2].label = "Orbit"

\* C7: the distance of every pose of the route lies in [1.0, 195.0].
C7_DistanceInRange ==
    \A k \in DOMAIN route : route[k].d >= 10 /\ route[k].d <= 1950

\* the clamped max_distance of the run, hundredths
ClampedMax == clamp(args.max_distance, 100, 19500)

\* the near distance of the run, hundredths
PushInTarget ==
    IF args.near_distance_min >= ClampedMax - 7000
    THEN args.near_distance_min ELSE ClampedMax - 7000

\* C8: the hero pose has distance max(near_distance_min, clamp(max_distance)
\* - 70), to the 0.1 m the pose keeps, and is strictly closer than the
\* establishing pose.
C8_HeroCloser ==
    route # <<>> =>
        LET hero == route[Len(route)]
        IN  /\ 10 * hero.d - PushInTarget <= 5
            /\ PushInTarget - 10 * hero.d <= 5
            /\ hero.d < route[1].d

\* C9: when the clamped max distance is greater than the near distance, the
\* distances along the route never increase: establishing >= first orbit,
\* each orbit pose >= the next, last orbit >= hero.
C9_DistancesNonIncreasing ==
    (route # <<>> /\ ClampedMax > PushInTarget) =>
        \A k \in 1..(Len(route) - 1) : route[k].d >= route[k + 1].d

====
